---- MODULE Spec2Model ----
(***************************************************************************)
(* A model of the platform_spi attribute macro (src/src/lib.rs).           *)
(*                                                                         *)
(* One expansion of the macro is a run of the state machine: the attribute *)
(* arguments are parsed entry by entry (SpiAttributes::parse), the module  *)
(* declaration is checked to be inline (check_spi_items), its items are    *)
(* visited one by one (hoist_aliases_and_generate_impls), and the token    *)
(* stream is produced (the quote! of platform_spi).  The inputs of the     *)
(* expansion (the argument tokens, the module declaration, and the         *)
(* target_os of the build that later compiles the emitted tokens) are      *)
(* chosen in Init.                                                         *)
(***************************************************************************)
EXTENDS Naturals, Sequences, FiniteSets

\* ------------------------------------------------------------------ bounds
\* longest targets = [...] list written in an argument entry
MaxTargets == 2
\* most key = value entries in the attribute's argument list
MaxEntries == 2
\* most items in the module's inline content block
MaxItems == 2

\* ------------------------------------------------------------ input values
\* identifiers written in a targets list
TargetIdents == {"macos", "linux"}
\* target_os values of the build that compiles the emitted tokens
BuildOs == {"macos", "linux", "freebsd"}
\* string literals written as module_path
PathLits == {".", "foo"}

\* all sequences over S of length at most n
RECURSIVE SeqsUpTo(_, _)
SeqsUpTo(S, n) ==
    IF n = 0 THEN {<<>>}
    ELSE LET shorter == SeqsUpTo(S, n - 1)
         IN  shorter \cup {Append(s, x) : s \in {t \in shorter : Len(t) = n - 1}, x \in S}

\* a bracketed, comma separated list of identifiers:  [macos, linux]
ListValue(ids) == [kind |-> "list", ids |-> ids, lit |-> ""]
\* a string literal:  "foo"
StrValue(s) == [kind |-> "str", ids |-> <<>>, lit |-> s]
\* one  key = value  entry of the argument list
Entry(k, v) == [key |-> k, value |-> v]

\* entries whose value has the shape its key asks for
GoodEntries ==
    {Entry("targets", ListValue(ids)) : ids \in SeqsUpTo(TargetIdents, MaxTargets)}
        \cup {Entry("module_path", StrValue(s)) : s \in PathLits}
\* entries the parser rejects: an unknown key, or a value of the wrong shape
BadEntries ==
    { Entry("target", ListValue(<<"linux">>)),
      Entry("targets", StrValue(".")),
      Entry("module_path", ListValue(<<>>)) }
Entries == GoodEntries \cup BadEntries

\* ------------------------------------------------------------------ items
\* An item of the module's content block.  One record shape for all kinds:
\*   kind      "type" | "use" | "impl" | "fn"          (the syn::Item variant)
\*   ident     the alias name of a type item
\*   ty        "path" | "tuple": the variant of a type item's syn::Type
\*   path      the segments of the aliased type path, of the use tree, or of
\*             the trait path of an impl
\*   rename    the `as` clause of a use tree, "" when there is none
\*   self_ty   the segments of the implementing type of an impl
\*   body      the number of items in an impl's body
\*   generics  whether an impl has generic parameters  impl<T>
\*   where_clause  whether an impl has a where clause
\*   trait_    "none" | "neg" | "pos": absent trait, `!Trait`, `Trait`
Item(k, id, ty, p, rn, st, b, g, w, t) ==
    [kind |-> k, ident |-> id, ty |-> ty, path |-> p, rename |-> rn,
     self_ty |-> st, body |-> b, generics |-> g, where_clause |-> w, trait_ |-> t]

TypeItem(id, ty, p) == Item("type", id, ty, p, "", <<>>, 0, FALSE, FALSE, "none")
UseItem(p, rn) == Item("use", "", "path", p, rn, <<>>, 0, FALSE, FALSE, "none")
ImplItem(st, p, b, g, w, t) == Item("impl", "", "path", p, "", st, b, g, w, t)
FnItem(id) == Item("fn", id, "path", <<>>, "", <<>>, 0, FALSE, FALSE, "none")

TypeItems ==
    { TypeItem("X", "path", <<"Y">>),
      TypeItem("X", "path", <<"a", "Y">>),
      TypeItem("X", "tuple", <<>>) }
UseItems ==
    { UseItem(<<"E">>, ""), UseItem(<<"E">>, "R"), UseItem(<<"a", "E">>, "R") }
ImplItems ==
    {ImplItem(<<"X">>, IF t = "none" THEN <<>> ELSE <<"T">>, b, g, w, t) :
        b \in {0, 1}, g \in BOOLEAN, w \in BOOLEAN, t \in {"none", "neg", "pos"}}
      \cup {ImplItem(<<"R">>, <<"a", "T">>, 0, FALSE, FALSE, "pos")}
OtherItems == {FnItem("f")}
Items == TypeItems \cup UseItems \cup ImplItems \cup OtherItems

\* a module declaration: `mod ident { items }` (inline) or `mod ident;`
ModDecl(id, inl, its) == [ident |-> id, inline |-> inl, content |-> its]

\* --------------------------------------------------------------- the state
VARIABLES
    args,           \* the attribute's argument entries, as written
    mod_decl,       \* the annotated module declaration
    build_os,       \* target_os of the build compiling the emitted tokens
    pc,             \* the position of the expansion
    input,          \* the argument entries not yet consumed (the ParseStream)
    config,         \* SpiAttributes::parse's `result`
    idx,            \* the index of the item the `for` loop visits next
    invalid_items,  \* hoist_aliases_and_generate_impls' local
    aliases,        \* hoist_aliases_and_generate_impls' local
    impl_types,     \* hoist_aliases_and_generate_impls' local
    impls,          \* hoist_aliases_and_generate_impls' local
    output          \* the token stream platform_spi returns

vars == <<args, mod_decl, build_os, pc, input, config, idx, invalid_items,
          aliases, impl_types, impls, output>>

inputs == <<args, mod_decl, build_os>>
hoist_locals == <<idx, invalid_items, aliases, impl_types, impls>>

\* a compile_error!(msg) invocation spanned at `span`
CompileError(msg, span) == [tok |-> "compile_error", msg |-> msg, span |-> span]

\* ------------------------------------------------- SpiAttributes (107-156)
\* string literals naming each target_os value, e.g. "macos"
target_names(c) == c.targets

\* a mutation of source_paths, the directory fixed to ".": C3_Inclusions
\* fails under it
source_paths_fixed_dir(c) ==
    [i \in 1..Len(c.targets) |-> "./" \o c.targets[i] \o ".rs"]

\* string literals naming each module source file, e.g. "./macos.rs"
source_paths(c) ==
    [i \in 1..Len(c.targets) |-> c.module_path \o "/" \o c.targets[i] \o ".rs"]

\* `result` as SpiAttributes::parse creates it
parse_init == [tag |-> "Ok", targets |-> <<>>, module_path |-> ".", msg |-> ""]

\* a syn::Error returned by parse
parse_err(msg) == [tag |-> "Err", targets |-> <<>>, module_path |-> "", msg |-> msg]

\* a mutation of parse_entry, a key's first value kept instead of its last:
\* C10_LastWriteWins fails under it
parse_entry_first_wins(result, e) ==
    IF e.key = "targets" THEN
        IF e.value.kind = "list"
        THEN IF result.targets = <<>> THEN [result EXCEPT !.targets = e.value.ids] ELSE result
        ELSE parse_err("expected square brackets")
    ELSE IF e.key = "module_path" THEN
        IF e.value.kind = "str"
        THEN IF result.module_path = "." THEN [result EXCEPT !.module_path = e.value.lit] ELSE result
        ELSE parse_err("expected string literal")
    ELSE parse_err("Unexpected attribute '" \o e.key \o "'")

\* one turn of parse's `while !input.is_empty()` loop on the entry e: the
\* key, the `=`, and the value matched on the key.  The optional comma after
\* the entry carries no information and is not a token of the model.
parse_entry(result, e) ==
    IF e.key = "targets" THEN
        IF e.value.kind = "list"
        THEN [result EXCEPT !.targets = e.value.ids]
        ELSE parse_err("expected square brackets")
    ELSE IF e.key = "module_path" THEN
        IF e.value.kind = "str"
        THEN [result EXCEPT !.module_path = e.value.lit]
        ELSE parse_err("expected string literal")
    ELSE parse_err("Unexpected attribute '" \o e.key \o "'")

\* ------------------------------------------------------ SpiModule (158-271)
Ok(item) == [tag |-> "Ok", item |-> item]
Err(diag) == [tag |-> "Err", diag |-> diag]

ExternalModuleMsg ==
    "External module imports are not supported, only inline module declarations."
ImplMsg ==
    "Impl block is incorrectly formed, only format of 'impl Trait for Type {}' is allowed"
ItemKindMsg ==
    "Only 'type', 'use', and 'impl' items are supported in an SPI module declaration but found"
PathAliasMsg ==
    "Only path aliases are supported in an SPI module declaration"

\* the span of the module's name, and of the i-th item of its content
IdentSpan == 0
ItemSpan(i) == i

\* a mutation of check_spi_items, an external module taken for an empty
\* block: C9_ExternalAbortsAfterArgs fails under it
check_spi_items_lenient(m) == Ok(m.content)

check_spi_items(m) ==
    IF m.inline THEN Ok(m.content) ELSE Err(CompileError(ExternalModuleMsg, IdentSpan))

\* the pattern (0, None, Some((None, path, _))) matched against
\* (items.len(), generics.where_clause, trait_)
impl_matches(impl_item) ==
    /\ impl_item.body = 0
    /\ ~impl_item.where_clause
    /\ impl_item.trait_ = "pos"

\* a mutation of impl_self_ty, the type qualified through the module like an
\* alias: C6_ContractPairs fails under it
impl_self_ty_prefixed(impl_item, parent_module) == <<parent_module>> \o impl_item.self_ty

\* the implementing type pushed for an accepted impl item
impl_self_ty(impl_item, parent_module) == impl_item.self_ty

hoist_type_alias(alias, parent_module, span) ==
    IF alias.ty = "path"
    THEN Ok([alias EXCEPT !.path = <<parent_module>> \o @])
    ELSE Err(CompileError(PathAliasMsg, span))

\* a mutation of hoist_use_alias, the use tree rebuilt without its rename:
\* C7_Hoisted fails under it
hoist_use_alias_no_rename(alias, parent_module, span) ==
    Ok([alias EXCEPT !.path = <<parent_module>> \o @, !.rename = ""])

hoist_use_alias(alias, parent_module, span) ==
    Ok([alias EXCEPT !.path = <<parent_module>> \o @])

\* the `let hoisted = match item { ... }` of the loop body
hoisted(item, parent_module, span) ==
    IF item.kind = "type" THEN hoist_type_alias(item, parent_module, span)
    ELSE IF item.kind = "use" THEN hoist_use_alias(item, parent_module, span)
    ELSE Err(CompileError(ItemKindMsg, span))

\* the inline module declaration, rewritten as module file import
mod_import_decl(m) == ModDecl(m.ident, FALSE, <<>>)

\* ------------------------------------------------- platform_spi's quote!
CfgTargetOs(name) == [pred |-> "target_os", names |-> <<name>>]
CfgNotAny(names) == [pred |-> "not_any", names |-> names]

\* whether the build for target_os = os compiles what the attribute guards
CfgActive(cfg, os) ==
    IF cfg.pred = "target_os" THEN cfg.names[1] = os
    ELSE ~ \E i \in 1..Len(cfg.names) : cfg.names[i] = os

Inclusion(cfg, path, m) == [tok |-> "mod", cfg |-> cfg, path |-> path, decl |-> m]
AliasTok(item) == [tok |-> "alias", item |-> item]
AssertTok(ty, trait) == [tok |-> "assert_impl_all", ty |-> ty, trait |-> trait]

\* the path attribute of the module for unsupported targets
unsupported_path(c) == "./unsupported.rs"

quote_tokens(c, m, als, types, trs) ==
    LET names == target_names(c)
        paths == source_paths(c)
    IN  [i \in 1..Len(names) |-> Inclusion(CfgTargetOs(names[i]), paths[i], m)]
            \o <<Inclusion(CfgNotAny(names), unsupported_path(c), m)>>
            \o [i \in 1..Len(als) |-> AliasTok(als[i])]
            \o [i \in 1..Len(types) |-> AssertTok(types[i], trs[i])]

\* ----------------------------------------------------------------- inputs
ModName == "platform"

\* a few module declarations, for runs that vary the arguments
FewDecls ==
    { ModDecl(ModName, FALSE, <<>>),
      ModDecl(ModName, TRUE, <<TypeItem("X", "path", <<"Y">>),
                               ImplItem(<<"X">>, <<"T">>, 0, FALSE, FALSE, "pos")>>),
      ModDecl(ModName, TRUE, <<FnItem("f")>>) }
\* a few argument lists, for runs that vary the module declaration
FewArgs ==
    { <<Entry("targets", ListValue(<<"macos", "linux">>))>>,
      <<Entry("target", ListValue(<<"linux">>))>> }

AllArgs == SeqsUpTo(Entries, MaxEntries)
AllDecls ==
    {ModDecl(ModName, TRUE, its) : its \in SeqsUpTo(Items, MaxItems)}
        \cup {ModDecl(ModName, FALSE, <<>>)}

Init ==
    /\ \/ args \in AllArgs /\ mod_decl \in FewDecls /\ build_os \in BuildOs
       \/ args \in FewArgs /\ mod_decl \in AllDecls /\ build_os = "linux"
    /\ pc = "parse_args"
    /\ input = args
    /\ config = parse_init
    /\ idx = 1
    /\ invalid_items = <<>>
    /\ aliases = <<>>
    /\ impl_types = <<>>
    /\ impls = <<>>
    /\ output = <<>>

\* ---------------------------------------------------------------- actions
\* SpiAttributes::parse, one entry; parse_macro_input! returns the error's
\* compile_error! from platform_spi when the entry is rejected
ParseEntry ==
    /\ pc = "parse_args"
    /\ input # <<>>
    /\ LET r == parse_entry(config, Head(input))
           at == Len(args) - Len(input) + 1
       IN  /\ config' = r
           /\ input' = Tail(input)
           /\ pc' = IF r.tag = "Ok" THEN "parse_args" ELSE "done"
           /\ output' = IF r.tag = "Ok" THEN output ELSE <<CompileError(r.msg, at)>>
    /\ UNCHANGED <<inputs, hoist_locals>>

\* SpiAttributes::parse returns Ok(result); the item parses as a syn::ItemMod
ParseDone ==
    /\ pc = "parse_args"
    /\ input = <<>>
    /\ pc' = "try_from"
    /\ UNCHANGED <<inputs, input, config, hoist_locals, output>>

\* SpiModule::try_from up to the call of hoist_aliases_and_generate_impls
CheckSpiItems ==
    /\ pc = "try_from"
    /\ LET r == check_spi_items(mod_decl)
       IN  /\ pc' = IF r.tag = "Ok" THEN "hoist" ELSE "done"
           /\ output' = IF r.tag = "Ok" THEN output ELSE <<r.diag>>
    /\ UNCHANGED <<inputs, input, config, hoist_locals>>

\* a mutation of push_invalid, only the first diagnostic kept:
\* C4_AllDiagnostics fails under it
push_invalid_first_only(invalid, diagnostic) ==
    IF invalid = <<>> THEN <<diagnostic>> ELSE invalid

\* invalid_items.push(diagnostic)
push_invalid(invalid, diagnostic) == Append(invalid, diagnostic)

\* one turn of the `for item in mod_aliases` loop
HoistItem ==
    /\ pc = "hoist"
    /\ idx <= Len(mod_decl.content)
    /\ LET item == mod_decl.content[idx]
           parent_module == mod_decl.ident
           h == hoisted(item, parent_module, ItemSpan(idx))
       IN  IF item.kind = "impl" THEN
               IF impl_matches(item) THEN
                   /\ impl_types' = Append(impl_types, impl_self_ty(item, parent_module))
                   /\ impls' = Append(impls, item.path)
                   /\ UNCHANGED <<invalid_items, aliases>>
               ELSE
                   /\ invalid_items' =
                          push_invalid(invalid_items, CompileError(ImplMsg, ItemSpan(idx)))
                   /\ UNCHANGED <<impl_types, impls, aliases>>
           ELSE IF h.tag = "Ok" THEN
               /\ aliases' = Append(aliases, h.item)
               /\ UNCHANGED <<invalid_items, impl_types, impls>>
           ELSE
               /\ invalid_items' = push_invalid(invalid_items, h.diag)
               /\ UNCHANGED <<aliases, impl_types, impls>>
    /\ idx' = idx + 1
    /\ UNCHANGED <<inputs, pc, input, config, output>>

\* a mutation of hoist_fails, one invalid item tolerated: C8_AllOrNothing
\* fails under it
hoist_fails_on_several(invalid) == Len(invalid) > 1

\* whether hoist_aliases_and_generate_impls returns Err after its loop
hoist_fails(invalid) == invalid # <<>>

\* the end of hoist_aliases_and_generate_impls; on Err try_from and then
\* platform_spi return the collected diagnostics
HoistReturn ==
    /\ pc = "hoist"
    /\ idx > Len(mod_decl.content)
    /\ pc' = IF hoist_fails(invalid_items) THEN "done" ELSE "emit"
    /\ output' = IF hoist_fails(invalid_items) THEN invalid_items ELSE output
    /\ UNCHANGED <<inputs, input, config, hoist_locals>>

\* the rest of platform_spi: the quote! of the generated items
Emit ==
    /\ pc = "emit"
    /\ output' = quote_tokens(config, mod_import_decl(mod_decl), aliases, impl_types, impls)
    /\ pc' = "done"
    /\ UNCHANGED <<inputs, input, config, hoist_locals>>

Next ==
    \/ ParseEntry
    \/ ParseDone
    \/ CheckSpiItems
    \/ HoistItem
    \/ HoistReturn
    \/ Emit

Spec == Init /\ [][Next]_vars

\* ------------------------------------------------------ claims: helpers
\* the expansion has ended and returned generated items
Succeeded ==
    /\ pc = "done"
    /\ \A i \in 1..Len(output) : output[i].tok # "compile_error"
\* the expansion has ended and returned diagnostics
Failed ==
    /\ pc = "done"
    /\ \E i \in 1..Len(output) : output[i].tok = "compile_error"

KnownKeys == {"targets", "module_path"}
\* every entry with a known key has a value of the shape the key asks for
WellShaped(as) ==
    \A i \in 1..Len(as) :
        /\ as[i].key = "targets" => as[i].value.kind = "list"
        /\ as[i].key = "module_path" => as[i].value.kind = "str"
\* the positions of the entries of `as` with key k
Positions(as, k) == {i \in 1..Len(as) : as[i].key = k}
Max(S) == CHOOSE m \in S : \A n \in S : n <= m
Min(S) == CHOOSE m \in S : \A n \in S : m <= n

\* C10: for an argument list of well-formed entries: when every key is
\* targets or module_path, parsing succeeds and the Config holds, for each
\* key, the value of the key's last occurrence (targets in the order written
\* there), "." for an absent module_path and no targets for an absent
\* targets; when some key is another one, parsing fails, the expansion
\* returns the single diagnostic "Unexpected attribute '<key>'" naming the
\* first such key, and there is no Config.
C10_LastWriteWins ==
    (pc # "parse_args" /\ WellShaped(args)) =>
        LET unknown == {i \in 1..Len(args) : args[i].key \notin KnownKeys}
            ts == Positions(args, "targets")
            ps == Positions(args, "module_path")
        IN  IF unknown = {} THEN
                /\ config.tag = "Ok"
                /\ config.targets = IF ts = {} THEN <<>> ELSE args[Max(ts)].value.ids
                /\ config.module_path = IF ps = {} THEN "." ELSE args[Max(ps)].value.lit
                /\ \A i \in 1..Len(output) :
                       output[i].tok = "compile_error" =>
                           output[i].msg \in {ExternalModuleMsg, ImplMsg, ItemKindMsg, PathAliasMsg}
            ELSE
                /\ config.tag = "Err"
                /\ pc = "done"
                /\ Len(output) = 1
                /\ output[1].tok = "compile_error"
                /\ output[1].msg = "Unexpected attribute '" \o args[Min(unknown)].key \o "'"

\* C10's case: the same key written twice with different values, parsed
C10_Witness ==
    /\ pc = "try_from"
    /\ Len(args) = 2
    /\ args[1].key = "targets" /\ args[2].key = "targets"
    /\ args[1].value.kind = "list" /\ args[2].value.kind = "list"
    /\ args[1].value.ids = <<"linux">> /\ args[2].value.ids = <<"macos", "linux">>

\* ------------------------------------------------- claims: the emitter
\* the conditional inclusions (`mod` items) of the output, in order
Inclusions == SelectSeq(output, LAMBDA t : t.tok = "mod")
\* target_os values a cfg is evaluated on
AllOs == BuildOs \cup TargetIdents
\* the configured targets, as a set
TargetSet == {config.targets[i] : i \in 1..Len(config.targets)}

\* C1: in every build of a successful expansion exactly one of the emitted
\* conditional inclusions (targets and fallback) is active.
C1_ExactlyOneActive ==
    Succeeded =>
        Cardinality({i \in 1..Len(Inclusions) :
                        CfgActive(Inclusions[i].cfg, build_os)}) = 1

\* C2: the fallback inclusion of a successful expansion is sourced from
\* {module_path}/unsupported.rs.
C2_FallbackPath ==
    Succeeded =>
        Inclusions[Len(Inclusions)].path = config.module_path \o "/unsupported.rs"

\* C3: a successful expansion for a Config with n targets emits n + 1
\* conditional inclusions of the block's module, first in the output: the
\* i-th is active exactly in builds for the i-th target and is sourced from
\* {module_path}/{target}.rs; the last is the fallback, active exactly in
\* builds for none of the targets.
C3_Inclusions ==
    Succeeded =>
        LET n == Len(config.targets)
        IN  /\ Len(Inclusions) = n + 1
            /\ \A i \in 1..(n + 1) : output[i] = Inclusions[i]
            /\ \A i \in 1..(n + 1) :
                   Inclusions[i].decl = ModDecl(mod_decl.ident, FALSE, <<>>)
            /\ \A i \in 1..n :
                   /\ Inclusions[i].path =
                          config.module_path \o "/" \o config.targets[i] \o ".rs"
                   /\ \A os \in AllOs :
                          CfgActive(Inclusions[i].cfg, os) <=> os = config.targets[i]
            /\ \A os \in AllOs :
                   CfgActive(Inclusions[n + 1].cfg, os) <=> os \notin TargetSet

\* C3's case: two targets and a module_path of its own, expanded
C3_Witness ==
    /\ Succeeded
    /\ config.targets = <<"macos", "linux">>
    /\ config.module_path = "foo"
    /\ Len(Inclusions) = 3

\* ---------------------------------------- claims: the item classification
\* an item the classification rejects: a type alias of a type that is no
\* path, an impl item that does not match the accepted form, and an item
\* that is no type, use or impl item
InvalidItem(item) ==
    IF item.kind = "type" THEN item.ty # "path"
    ELSE IF item.kind = "use" THEN FALSE
    ELSE IF item.kind = "impl"
         THEN ~(item.body = 0 /\ ~item.where_clause /\ item.trait_ = "pos")
    ELSE TRUE
\* the diagnostic an invalid item gets
DiagnosticOf(item) ==
    IF item.kind = "type" THEN PathAliasMsg
    ELSE IF item.kind = "impl" THEN ImplMsg
    ELSE ItemKindMsg
\* the positions of the invalid items of the block
InvalidPositions ==
    {i \in 1..Len(mod_decl.content) : InvalidItem(mod_decl.content[i])}
\* hoist_aliases_and_generate_impls has been called and has returned
HoistReturned ==
    /\ config.tag = "Ok"
    /\ mod_decl.inline
    /\ pc \in {"emit", "done"}

WellFormedAssertion(item) ==
    /\ item.body = 0
    /\ ~item.generics
    /\ ~item.where_clause
    /\ item.trait_ = "pos"

\* C5: an impl item that has a body, generic parameters, a where clause, a
\* negated trait or no trait gets the MalformedContractAssertion diagnostic
\* and records no pair; only well-formed impl items record one.
C5_OnlyWellFormedAccepted ==
    pc = "hoist" =>
        LET visited == {i \in 1..(idx - 1) : mod_decl.content[i].kind = "impl"}
        IN  /\ \A i \in visited :
                   ~WellFormedAssertion(mod_decl.content[i]) =>
                       \E j \in 1..Len(invalid_items) :
                           invalid_items[j] = CompileError(ImplMsg, ItemSpan(i))
            /\ Len(impl_types) =
                   Cardinality({i \in visited : WellFormedAssertion(mod_decl.content[i])})

\* the items of the block of the given kinds, in order
ItemsOfKind(kinds) == SelectSeq(mod_decl.content, LAMBDA it : it.kind \in kinds)
\* the tokens of the output of the given kind, in order
TokensOfKind(k) == SelectSeq(output, LAMBDA t : t.tok = k)

\* C6: a successful expansion records, for the contract assertions of the
\* block in their order and with repetitions, the pairs of the implementing
\* type as written (not prefixed by the block's name) and the interface
\* path, and emits one assert_impl_all per pair in that order.
C6_ContractPairs ==
    Succeeded =>
        LET written == ItemsOfKind({"impl"})
        IN  /\ Len(impl_types) = Len(written)
            /\ Len(impls) = Len(written)
            /\ \A j \in 1..Len(written) :
                   /\ impl_types[j] = written[j].self_ty
                   /\ impls[j] = written[j].path
            /\ TokensOfKind("assert_impl_all") =
                   [j \in 1..Len(written) |-> AssertTok(written[j].self_ty, written[j].path)]

\* C6's case: two different contract assertions, expanded
C6_Witness ==
    /\ Succeeded
    /\ Len(mod_decl.content) = 2
    /\ mod_decl.content[1] = ImplItem(<<"R">>, <<"a", "T">>, 0, FALSE, FALSE, "pos")
    /\ mod_decl.content[2] = ImplItem(<<"X">>, <<"T">>, 0, FALSE, FALSE, "pos")
    /\ Len(TokensOfKind("assert_impl_all")) = 2

\* C7: a successful expansion emits, for the type aliases and re-exports of
\* the block in their order, the item with the block's name inserted as the
\* first segment of its path and nothing else changed.
C7_Hoisted ==
    Succeeded =>
        LET written == ItemsOfKind({"type", "use"})
        IN  TokensOfKind("alias") =
                [j \in 1..Len(written) |->
                    AliasTok([written[j] EXCEPT !.path = <<mod_decl.ident>> \o @])]

\* C7's case: a re-export with a rename and a type alias, expanded
C7_Witness ==
    /\ Succeeded
    /\ Len(mod_decl.content) = 2
    /\ mod_decl.content[1] = UseItem(<<"a", "E">>, "R")
    /\ mod_decl.content[2] = TypeItem("X", "path", <<"Y">>)
    /\ Len(TokensOfKind("alias")) = 2

C9_ExternalAborts ==
    (pc = "done" /\ ~mod_decl.inline) =>
        output = <<CompileError(ExternalModuleMsg, IdentSpan)>>

\* C9, amended: when the attribute's arguments parse, an expansion of a
\* module declaration that is not inline returns exactly one diagnostic,
\* ExternalModuleNotSupported at the module's name, and no item has been
\* classified; when they do not parse, it returns the argument error alone.
C9_ExternalAbortsAfterArgs ==
    (pc = "done" /\ ~mod_decl.inline) =>
        /\ Len(output) = 1
        /\ output[1].tok = "compile_error"
        /\ output[1].msg \notin {PathAliasMsg, ImplMsg, ItemKindMsg}
        /\ idx = 1 /\ invalid_items = <<>> /\ aliases = <<>> /\ impls = <<>>
        /\ config.tag = "Ok" <=> output = <<CompileError(ExternalModuleMsg, IdentSpan)>>

\* C9's case: arguments that parse and a declaration  mod platform;
C9_Witness ==
    /\ pc = "done"
    /\ ~mod_decl.inline
    /\ config.tag = "Ok"
    /\ config.targets = <<"macos", "linux">>
    /\ Failed

====
